---------------------------- MODULE Spec2Model ----------------------------
(***************************************************************************)
(* Restaurant booking voice bot (jambonz WebSocket, TTS streaming): the    *)
(* per-call dialog controller of src/app.js as a state machine.            *)
(*                                                                         *)
(* Texts are JavaScript strings, modelled as sequences of UTF-16 code      *)
(* units (all characters used are in the basic plane), so toLowerCase,     *)
(* includes and trim are computed, not assumed.                            *)
(*                                                                         *)
(* Scheduling: Node runs one handler at a time up to its next real         *)
(* suspension.  The only suspension that lets other events in is the await *)
(* of the completion request (line 75) and the timers (lines 177, 193,     *)
(* 257); `await sayWithStreaming` (lines 174, 191, 200) resumes in a       *)
(* microtask, before any other event, so it does not split an action.      *)
(*                                                                         *)
(* The environment: the transport delivers recognition and status events   *)
(* in any order while the session is open and none after its close; the    *)
(* completion provider answers each request with a text or fails, in any   *)
(* order and at any time, also after the call is over (a completion whose  *)
(* content is not a string is not modelled).  The request body is what the *)
(* messages array holds when create() is called: the client library        *)
(* serialises it before any other event is handled.                        *)
(***************************************************************************)
EXTENDS Naturals, Sequences, FiniteSets

(***************************************************************************)
(* Bounds of the model.                                                    *)
(***************************************************************************)
\* recognition events delivered, over all calls
MaxEvents == 2

\* session.call_sid of the calls that can be in progress at the same time
CallSids == {"CA1", "CA2"}

\* Bound of the texts given to the two classifiers: the pieces a text is made of.
MaxPieces == 3

(***************************************************************************)
(* Text constants of the program.                                          *)
(***************************************************************************)
\* app.js:32, the persona template, modelled by its first sentence: Ты - приветливый сотрудник ресторана Золотой Дракон.
SYSTEM_PROMPT ==
    << 1058, 1099, 32, 45, 32, 1087, 1088, 1080, 1074, 1077, 1090, 1083, 1080, 1074, 1099,
       1081, 32, 1089, 1086, 1090, 1088, 1091, 1076, 1085, 1080, 1082, 32, 1088, 1077, 1089,
       1090, 1086, 1088, 1072, 1085, 1072, 32, 34, 1047, 1086, 1083, 1086, 1090, 1086, 1081,
       32, 1044, 1088, 1072, 1082, 1086, 1085, 34, 46 >>

\* app.js:56
\*  до свидания
EP_do_svidaniya ==
    << 1076, 1086, 32, 1089, 1074, 1080, 1076, 1072, 1085, 1080, 1103 >>

\*  пока
EP_poka ==
    << 1087, 1086, 1082, 1072 >>

\*  всего доброго
EP_vsego_dobrogo ==
    << 1074, 1089, 1077, 1075, 1086, 32, 1076, 1086, 1073, 1088, 1086, 1075, 1086 >>

\*  нет спасибо
EP_net_spasibo ==
    << 1085, 1077, 1090, 32, 1089, 1087, 1072, 1089, 1080, 1073, 1086 >>

\*  не интересует
EP_ne_interesuet ==
    << 1085, 1077, 32, 1080, 1085, 1090, 1077, 1088, 1077, 1089, 1091, 1077, 1090 >>

\*  не надо
EP_ne_nado ==
    << 1085, 1077, 32, 1085, 1072, 1076, 1086 >>

END_PHRASES ==
    << EP_do_svidaniya, EP_poka, EP_vsego_dobrogo, EP_net_spasibo, EP_ne_interesuet,
       EP_ne_nado >>

\* app.js:99-101, the confirmation markers
\*  забронирован
BC_zabronirovan ==
    << 1079, 1072, 1073, 1088, 1086, 1085, 1080, 1088, 1086, 1074, 1072, 1085 >>

\*  ждём вас
BC_zhdem_vas ==
    << 1078, 1076, 1105, 1084, 32, 1074, 1072, 1089 >>

\*  бронь подтверждена
BC_bron_podtverzhdena ==
    << 1073, 1088, 1086, 1085, 1100, 32, 1087, 1086, 1076, 1090, 1074, 1077, 1088, 1078, 1076,
       1077, 1085, 1072 >>

CONFIRM_MARKERS == << BC_zabronirovan, BC_zhdem_vas, BC_bron_podtverzhdena >>

\* app.js:90, the fallback apology
\*  Извините, произошла техническая ошибка. Перезвоните позже.
FALLBACK ==
    << 1048, 1079, 1074, 1080, 1085, 1080, 1090, 1077, 44, 32, 1087, 1088, 1086, 1080, 1079,
       1086, 1096, 1083, 1072, 32, 1090, 1077, 1093, 1085, 1080, 1095, 1077, 1089, 1082, 1072,
       1103, 32, 1086, 1096, 1080, 1073, 1082, 1072, 46, 32, 1055, 1077, 1088, 1077, 1079,
       1074, 1086, 1085, 1080, 1090, 1077, 32, 1087, 1086, 1079, 1078, 1077, 46 >>

\* app.js:174, the closing utterance
\*  Спасибо за ваше время! Хорошего дня, до свидания!
CLOSING ==
    << 1057, 1087, 1072, 1089, 1080, 1073, 1086, 32, 1079, 1072, 32, 1074, 1072, 1096, 1077,
       32, 1074, 1088, 1077, 1084, 1103, 33, 32, 1061, 1086, 1088, 1086, 1096, 1077, 1075,
       1086, 32, 1076, 1085, 1103, 44, 32, 1076, 1086, 32, 1089, 1074, 1080, 1076, 1072, 1085,
       1080, 1103, 33 >>

\* app.js:191, the farewell appended to a confirming reply
\*   До свидания!
FAREWELL ==
    << 32, 1044, 1086, 32, 1089, 1074, 1080, 1076, 1072, 1085, 1080, 1103, 33 >>

\* app.js:255
\*  Здравствуйте! Меня зовут Анна из ресторана Золотой Дракон. Хотели бы вы забронировать столик?
greeting ==
    << 1047, 1076, 1088, 1072, 1074, 1089, 1090, 1074, 1091, 1081, 1090, 1077, 33, 32, 1052,
       1077, 1085, 1103, 32, 1079, 1086, 1074, 1091, 1090, 32, 1040, 1085, 1085, 1072, 32,
       1080, 1079, 32, 1088, 1077, 1089, 1090, 1086, 1088, 1072, 1085, 1072, 32, 1047, 1086,
       1083, 1086, 1090, 1086, 1081, 32, 1044, 1088, 1072, 1082, 1086, 1085, 46, 32, 1061,
       1086, 1090, 1077, 1083, 1080, 32, 1073, 1099, 32, 1074, 1099, 32, 1079, 1072, 1073,
       1088, 1086, 1085, 1080, 1088, 1086, 1074, 1072, 1090, 1100, 32, 1089, 1090, 1086, 1083,
       1080, 1082, 63 >>

(***************************************************************************)
(* Inputs: what the callers say and what the completion provider returns.  *)
(***************************************************************************)
\*    
T_blank ==
    << 32, 32 >>

\*  Ну Пока
T_end ==
    << 1053, 1091, 32, 1055, 1086, 1082, 1072 >>

\*  хочу столик
T_table ==
    << 1093, 1086, 1095, 1091, 32, 1089, 1090, 1086, 1083, 1080, 1082 >>

\*  на двоих
T_two ==
    << 1085, 1072, 32, 1076, 1074, 1086, 1080, 1093 >>

\*  На какую дату?
R_plain ==
    << 1053, 1072, 32, 1082, 1072, 1082, 1091, 1102, 32, 1076, 1072, 1090, 1091, 63 >>

\*  Бронь Подтверждена
R_confirm ==
    << 1041, 1088, 1086, 1085, 1100, 32, 1055, 1086, 1076, 1090, 1074, 1077, 1088, 1078, 1076,
       1077, 1085, 1072 >>

\*  ЖДЁМ ВАС
P_ZHDEM_VAS ==
    << 1046, 1044, 1025, 1052, 32, 1042, 1040, 1057 >>

\*  забронирова  (the marker without its last letter, as in the infinitive)
P_zabronirova ==
    << 1079, 1072, 1073, 1088, 1086, 1085, 1080, 1088, 1086, 1074, 1072 >>

\*  н
P_n ==
    << 1085 >>

\*  по
P_po ==
    << 1087, 1086 >>

\*  ка
P_ka ==
    << 1082, 1072 >>

\*  one space
P_space ==
    << 32 >>

\*  one no-break space
P_nbsp ==
    << 160 >>

\* The pieces the texts given to isEndPhrase and isBookingConfirmed are made
\* of: white space, words in both cases, markers whole and cut in two.
Pieces ==
    {P_space, P_nbsp, P_po, P_ka, P_n, P_zabronirova, P_ZHDEM_VAS, T_end, T_table,
     R_confirm, EP_ne_nado}

\* What the caller of each call says when neither silent nor declining.  The
\* two callers use different words, so that a turn found in the wrong history
\* can be told from the call's own.
Utterances(c) == IF c = "CA1" THEN {T_table} ELSE {T_two}

\* The payloads of a recognition event: no speech field, no alternatives, an
\* alternative without transcript, or a transcript.
Events(c) ==
    {[shape |-> s, transcript |-> << >>] :
        s \in {"no_speech", "no_alternatives", "no_transcript"}}
    \cup {[shape |-> "transcript", transcript |-> t] :
            t \in {<< >>, T_blank, T_end} \cup Utterances(c)}

\* The texts a successful completion carries.
ModelReplies == {R_plain, R_confirm}

\* evt.call_status: one status that ends nothing, and the two that end the call
CallStatuses == {"in-progress", "completed", "failed"}

(***************************************************************************)
(* String functions of JavaScript, on sequences of code units.             *)
(***************************************************************************)
\* String.prototype.toLowerCase on one code unit: Latin A-Z, Cyrillic
\* U+0410..U+042F and U+0401 have a lower case; nothing else used here does.
toLowerChar(ch) ==
    IF ch >= 65 /\ ch <= 90 THEN ch + 32
    ELSE IF ch >= 1040 /\ ch <= 1071 THEN ch + 32
    ELSE IF ch = 1025 THEN 1105
    ELSE ch

toLowerCase(s) == [i \in 1..Len(s) |-> toLowerChar(s[i])]

\* String.prototype.includes
includes(s, sub) ==
    \E i \in 0..Len(s) : i + Len(sub) <= Len(s) /\ SubSeq(s, i + 1, i + Len(sub)) = sub

\* the white space String.prototype.trim removes (tab, LF, VT, FF, CR, space,
\* no-break space, BOM)
IsWhiteSpace(ch) == ch \in {9, 10, 11, 12, 13, 32, 160, 65279}

RECURSIVE trimStart(_)
trimStart(s) ==
    IF s # << >> /\ IsWhiteSpace(Head(s)) THEN trimStart(Tail(s)) ELSE s

RECURSIVE trimEnd(_)
trimEnd(s) ==
    IF s # << >> /\ IsWhiteSpace(s[Len(s)]) THEN trimEnd(SubSeq(s, 1, Len(s) - 1)) ELSE s

\* trim as it would be if line 165 tested the transcript itself (!transcript)
trim_None(s) == s

trim(s) == trimEnd(trimStart(s))

(***************************************************************************)
(* Dialog policy.                                                          *)
(***************************************************************************)
\* (const lower = text.toLowerCase(): the text is put in lower case once)
isBookingConfirmed(text) ==
    \E lower \in {toLowerCase(text)} :
        \E i \in DOMAIN CONFIRM_MARKERS : includes(lower, CONFIRM_MARKERS[i])

\* isEndPhrase as it would be without the toLowerCase of line 108
isEndPhrase_CaseSensitive(text) ==
    \E i \in DOMAIN END_PHRASES : includes(text, END_PHRASES[i])

isEndPhrase(text) ==
    \E lower \in {toLowerCase(text)} :
        \E i \in DOMAIN END_PHRASES : includes(lower, END_PHRASES[i])

(***************************************************************************)
(* State.                                                                  *)
(***************************************************************************)
VARIABLES
    session,        \* per call: "idle" (no session yet), "open", "closed"
    conversations,  \* the Map: callSid -> array; its domain is the keys it has
    allocated,      \* per call: arrays created so far by getAIResponse
    pending,        \* completion requests in flight, one record per suspended handler
    received,       \* per call: the recognition events handled so far
    asked,          \* per call: the calls of getAIResponse so far
    cmds,           \* per call: the commands issued on the session, in order
    greetTimer,     \* per call: the 500 ms greeting timer is armed
    hangupTimers,   \* per call: hangup timers armed and not yet fired
    orphaned,       \* history of the run: the requests in flight that were so when a
                    \* terminal status or the close of their call was handled
    pieces,         \* the text under classification, as the pieces it is made of
    verdict         \* what isEndPhrase and isBookingConfirmed returned on that text

vars ==
    << session, conversations, allocated, pending, received, asked, cmds, greetTimer,
       hangupTimers, orphaned, pieces, verdict >>

\* the state of the calls
callVars ==
    << session, conversations, allocated, pending, received, asked, cmds, greetTimer,
       hangupTimers, orphaned >>

\* the text and its classification
policyVars == << pieces, verdict >>

Turn(role, content) == [role |-> role, content |-> content]

Cmd(op, text) == [op |-> op, text |-> text]

\* conversations.has(callSid)
Has(c) == c \in DOMAIN conversations

\* the turns stored for c, none when the Map has no entry
History(c) == IF Has(c) THEN conversations[c].items ELSE << >>

\* Delete as it would be with conversations.clear() in the place of
\* conversations.delete(callSid)
Delete_Clear(conv, c) == << >>

\* conversations.delete(callSid): idempotent
Delete(conv, c) == [d \in (DOMAIN conv) \ {c} |-> conv[d]]

\* Ensure as it would be without the has() test of line 62: the entry is set
\* anew at every call
Ensure_Reseed(conv, c) ==
    [d \in (DOMAIN conv) \cup {c} |->
        IF d = c THEN [ref |-> allocated[c], items |-> << Turn("system", SYSTEM_PROMPT) >>]
        ELSE conv[d]]

\* Ensure as it would be if the new array were left empty
Ensure_NoSeed(conv, c) ==
    IF c \in DOMAIN conv THEN conv
    ELSE [d \in (DOMAIN conv) \cup {c} |->
            IF d = c THEN [ref |-> allocated[c], items |-> << >>] ELSE conv[d]]

\* lines 62-66: create the entry on first use, seeded with the system turn.  An
\* array is an object: ref tells the arrays created for one callSid apart.
Ensure(conv, c) ==
    IF c \in DOMAIN conv THEN conv
    ELSE [d \in (DOMAIN conv) \cup {c} |->
            IF d = c THEN [ref |-> allocated[c], items |-> << Turn("system", SYSTEM_PROMPT) >>]
            ELSE conv[d]]

\* Push as it would be if the turn were stored under the call's key instead of
\* pushed on the array held: the entry comes back after it was deleted.
Push_Reinsert(conv, c, ref, turn) ==
    [d \in (DOMAIN conv) \cup {c} |->
        IF d # c THEN conv[d]
        ELSE IF c \in DOMAIN conv THEN [conv[c] EXCEPT !.items = Append(@, turn)]
        ELSE [ref |-> ref, items |-> << Turn("system", SYSTEM_PROMPT), turn >>]]

\* Push as it would be if the array were looked up again in the Map at the
\* time of the push (conversations.get(callSid).push) instead of held since
\* line 68.
Push_ByKey(conv, c, ref, turn) ==
    IF c \in DOMAIN conv THEN [conv EXCEPT ![c].items = Append(@, turn)] ELSE conv

\* messages.push(turn) on the array a suspended or running getAIResponse holds:
\* seen in the Map only while the Map still holds that very array.
Push(conv, c, ref, turn) ==
    IF c \in DOMAIN conv /\ conv[c].ref = ref
    THEN [conv EXCEPT ![c].items = Append(@, turn)]
    ELSE conv

\* sayWithStreaming as it would be without the flush of line 123
sayWithStreaming_NoFlush(log, text) == Append(log, Cmd("sendTtsTokens", text))

\* lines 115-129: push the text into the synthesis channel and flush
sayWithStreaming(log, text) ==
    log \o << Cmd("sendTtsTokens", text), Cmd("flushTtsTokens", << >>) >>

\* lines 154-157
ExtractTranscript(evt) ==
    IF evt.shape = "transcript" /\ evt.transcript # << >> THEN evt.transcript ELSE << >>

RECURSIVE Sum(_, _)
Sum(f, S) ==
    IF S = {} THEN 0
    ELSE LET c == CHOOSE x \in S : TRUE IN f[c] + Sum(f, S \ {c})

\* the recognition events handled so far, over all calls
TotalEvents == Sum(received, CallSids)

PendingOf(c) == {p \in pending : p.callSid = c}

Init ==
    /\ session = [c \in CallSids |-> "idle"]
    /\ conversations = << >>
    /\ allocated = [c \in CallSids |-> 0]
    /\ pending = {}
    /\ received = [c \in CallSids |-> 0]
    /\ asked = [c \in CallSids |-> 0]
    /\ cmds = [c \in CallSids |-> << >>]
    /\ greetTimer = [c \in CallSids |-> FALSE]
    /\ hangupTimers = [c \in CallSids |-> 0]
    /\ orphaned = {}
    /\ pieces = << >>
    /\ verdict = [decided |-> FALSE, end |-> FALSE, booked |-> FALSE]

(***************************************************************************)
(* Actions.                                                                *)
(***************************************************************************)
\* lines 140-264: handlers registered, configuration sent, greeting timer armed
SessionNew(c) ==
    /\ session[c] = "idle"
    /\ session' = [session EXCEPT ![c] = "open"]
    /\ cmds' = [cmds EXCEPT ![c] = Append(@, Cmd("config", << >>))]
    /\ greetTimer' = [greetTimer EXCEPT ![c] = TRUE]
    /\ UNCHANGED << conversations, allocated, pending, received, asked, hangupTimers,
                    orphaned >>
    /\ UNCHANGED policyVars

\* lines 257-259: the greeting timer fires (it is never cancelled)
GreetingTimer(c) ==
    /\ greetTimer[c]
    /\ greetTimer' = [greetTimer EXCEPT ![c] = FALSE]
    /\ cmds' = [cmds EXCEPT ![c] = sayWithStreaming(@, greeting)]
    /\ UNCHANGED << session, conversations, allocated, pending, received, asked,
                    hangupTimers, orphaned >>
    /\ UNCHANGED policyVars

\* the part of the recognition handler every event runs: lines 150-162
Received(c, evt) ==
    /\ session[c] = "open"
    /\ TotalEvents < MaxEvents
    /\ received' = [received EXCEPT ![c] = @ + 1]

\* SpeechEmpty as it would be with the test of line 165 placed before the
\* acknowledgement of line 162
SpeechEmpty_NoAck(c, evt) ==
    /\ Received(c, evt)
    /\ trim(ExtractTranscript(evt)) = << >>
    /\ UNCHANGED << session, conversations, allocated, pending, asked, cmds, greetTimer,
                    hangupTimers, orphaned >>
    /\ UNCHANGED policyVars

\* lines 150-167: empty transcript, acknowledged and ignored
SpeechEmpty(c, evt) ==
    /\ Received(c, evt)
    /\ trim(ExtractTranscript(evt)) = << >>
    /\ cmds' = [cmds EXCEPT ![c] = Append(@, Cmd("reply", << >>))]
    /\ UNCHANGED << session, conversations, allocated, pending, asked, greetTimer,
                    hangupTimers, orphaned >>
    /\ UNCHANGED policyVars

\* lines 150-181: end phrase
SpeechEndPhrase(c, evt) ==
    /\ Received(c, evt)
    /\ trim(ExtractTranscript(evt)) # << >>
    /\ isEndPhrase(ExtractTranscript(evt))
    /\ conversations' = Delete(conversations, c)
    /\ cmds' = [cmds EXCEPT ![c] = sayWithStreaming(Append(@, Cmd("reply", << >>)), CLOSING)]
    /\ hangupTimers' = [hangupTimers EXCEPT ![c] = @ + 1]
    /\ UNCHANGED << session, allocated, pending, asked, greetTimer, orphaned >>
    /\ UNCHANGED policyVars

\* lines 150-184 with getAIResponse up to its await (lines 61-80): the user turn
\* is pushed and the request leaves with the array as it then is
SpeechTurn(c, evt) ==
    LET transcript == ExtractTranscript(evt)
        ensured == Ensure(conversations, c)
        ref == ensured[c].ref
        pushed == Push(ensured, c, ref, Turn("user", transcript))
    IN  /\ Received(c, evt)
        /\ trim(transcript) # << >>
        /\ ~isEndPhrase(transcript)
        /\ cmds' = [cmds EXCEPT ![c] = Append(@, Cmd("reply", << >>))]
        /\ conversations' = pushed
        /\ allocated' = [allocated EXCEPT ![c] = IF Has(c) THEN @ ELSE @ + 1]
        /\ asked' = [asked EXCEPT ![c] = @ + 1]
        /\ pending' = pending \cup
                {[callSid |-> c, evt |-> received[c] + 1, seq |-> asked[c] + 1, ref |-> ref,
                  userMessage |-> transcript, messages |-> pushed[c].items]}
        /\ UNCHANGED << session, greetTimer, hangupTimers, orphaned >>
        /\ UNCHANGED policyVars

\* Respond as it would be with the hangup timer of lines 193-195 armed outside
\* the test of line 187
Respond_HangupAlways(p, conv, aiResponse) ==
    LET c == p.callSid
    IN  /\ conversations' = IF isBookingConfirmed(aiResponse) THEN Delete(conv, c) ELSE conv
        /\ cmds' = [cmds EXCEPT ![c] = sayWithStreaming(@,
                        IF isBookingConfirmed(aiResponse) THEN aiResponse \o FAREWELL
                        ELSE aiResponse)]
        /\ hangupTimers' = [hangupTimers EXCEPT ![c] = @ + 1]

\* Respond as it would be if getAIResponse returned nothing on failure and the
\* handler then said nothing
Respond_SilentFallback(p, conv, aiResponse) ==
    LET c == p.callSid
    IN  IF aiResponse = FALLBACK
        THEN /\ conversations' = conv
             /\ UNCHANGED << cmds, hangupTimers >>
        ELSE IF isBookingConfirmed(aiResponse)
        THEN /\ conversations' = Delete(conv, c)
             /\ cmds' = [cmds EXCEPT ![c] = sayWithStreaming(@, aiResponse \o FAREWELL)]
             /\ hangupTimers' = [hangupTimers EXCEPT ![c] = @ + 1]
        ELSE /\ conversations' = conv
             /\ cmds' = [cmds EXCEPT ![c] = sayWithStreaming(@, aiResponse)]
             /\ UNCHANGED hangupTimers

\* lines 186-200: what the handler does with the text getAIResponse returned
Respond(p, conv, aiResponse) ==
    LET c == p.callSid
    IN  IF isBookingConfirmed(aiResponse)
        THEN /\ conversations' = Delete(conv, c)
             /\ cmds' = [cmds EXCEPT ![c] = sayWithStreaming(@, aiResponse \o FAREWELL)]
             /\ hangupTimers' = [hangupTimers EXCEPT ![c] = @ + 1]
        ELSE /\ conversations' = conv
             /\ cmds' = [cmds EXCEPT ![c] = sayWithStreaming(@, aiResponse)]
             /\ UNCHANGED hangupTimers

\* lines 82-87 then 186-200: the completion arrives
ModelReply(p, content) ==
    /\ p \in pending
    /\ pending' = pending \ {p}
    /\ Respond(p, Push(conversations, p.callSid, p.ref, Turn("assistant", content)), content)
    /\ orphaned' = orphaned \ {p}
    /\ UNCHANGED << session, allocated, received, asked, greetTimer >>
    /\ UNCHANGED policyVars

\* lines 88-91 then 186-200: the request fails
ModelFail(p) ==
    /\ p \in pending
    /\ pending' = pending \ {p}
    /\ Respond(p, conversations, FALLBACK)
    /\ orphaned' = orphaned \ {p}
    /\ UNCHANGED << session, allocated, received, asked, greetTimer >>
    /\ UNCHANGED policyVars

\* lines 177-179 and 193-195: a hangup timer fires (it is never cancelled).  It
\* was armed for 3000 or 5000 ms after the 500 ms greeting timer of its session
\* was, and Node runs timers in the order they expire: the greeting comes first.
HangupTimer(c) ==
    /\ hangupTimers[c] > 0
    /\ ~greetTimer[c]
    /\ hangupTimers' = [hangupTimers EXCEPT ![c] = @ - 1]
    /\ cmds' = [cmds EXCEPT ![c] = Append(@, Cmd("hangup", << >>))]
    /\ UNCHANGED << session, conversations, allocated, pending, received, asked,
                    greetTimer, orphaned >>
    /\ UNCHANGED policyVars

\* lines 214-220
CallStatus(c, status) ==
    /\ session[c] = "open"
    /\ IF status \in {"completed", "failed"}
       THEN /\ conversations' = Delete(conversations, c)
            /\ orphaned' = orphaned \cup PendingOf(c)
       ELSE UNCHANGED << conversations, orphaned >>
    /\ UNCHANGED << session, allocated, pending, received, asked, cmds, greetTimer,
                    hangupTimers >>
    /\ UNCHANGED policyVars

\* lines 223-226: the session is closed; no event of it is delivered afterwards
Close(c) ==
    /\ session[c] = "open"
    /\ session' = [session EXCEPT ![c] = "closed"]
    /\ conversations' = Delete(conversations, c)
    /\ orphaned' = orphaned \cup PendingOf(c)
    /\ UNCHANGED << allocated, pending, received, asked, cmds, greetTimer, hangupTimers >>
    /\ UNCHANGED policyVars

\* lines 204-211 and 229-231: handlers that only log
LogOnly(c) ==
    /\ session[c] = "open"
    /\ UNCHANGED vars

\* Bound of the runs with several calls: no call takes all the events of the
\* run, one is left to the others.
Room(S, c) == S = {c} \/ received[c] + 1 < MaxEvents

\* the steps of the calls in S
NextOf(S) ==
    \/ \E c \in S : SessionNew(c)
    \/ \E c \in S : GreetingTimer(c)
    \/ \E c \in S : \E evt \in Events(c) : Room(S, c) /\ SpeechEmpty(c, evt)
    \/ \E c \in S : \E evt \in Events(c) : Room(S, c) /\ SpeechEndPhrase(c, evt)
    \/ \E c \in S : \E evt \in Events(c) : Room(S, c) /\ SpeechTurn(c, evt)
    \/ \E p \in pending : \E content \in ModelReplies : ModelReply(p, content)
    \/ \E p \in pending : ModelFail(p)
    \/ \E c \in S : HangupTimer(c)
    \/ \E c \in S : \E status \in CallStatuses : CallStatus(c, status)
    \/ \E c \in S : Close(c)
    \/ \E c \in S : LogOnly(c)

\* two calls at the same time
Next == NextOf(CallSids)

Spec == Init /\ [][Next]_vars

NextOneCall == NextOf({"CA1"})

\* one call alone: the other one never starts
SpecOneCall == Init /\ [][NextOneCall]_vars

\* Node fires every timer that is armed
TimersFire == \A c \in CallSids : WF_vars(GreetingTimer(c)) /\ WF_vars(HangupTimer(c))

FairSpecOneCall == SpecOneCall /\ TimersFire

\* lines 75-91: a request in flight is settled, by a completion or a failure
Settle ==
    \E p \in pending : ModelFail(p) \/ \E content \in ModelReplies : ModelReply(p, content)

\* the completion provider settles every request
ProviderAnswers == WF_vars(Settle)

AnsweredSpecOneCall == SpecOneCall /\ ProviderAnswers

(***************************************************************************)
(* The two classifiers alone: a text is put together piece by piece and    *)
(* given to both; no call is in progress.                                  *)
(***************************************************************************)
RECURSIVE Join(_)
Join(ps) == IF ps = << >> THEN << >> ELSE Head(ps) \o Join(Tail(ps))

\* the text under classification
Text == Join(pieces)

\* one more piece at the end of the text
AppendPiece(piece) ==
    /\ Len(pieces) < MaxPieces
    /\ pieces' = Append(pieces, piece)
    /\ verdict' = [decided |-> FALSE, end |-> FALSE, booked |-> FALSE]
    /\ UNCHANGED callVars

\* lines 97-110: both classifiers are called on the text
Classify ==
    /\ ~verdict.decided
    /\ verdict' = [decided |-> TRUE, end |-> isEndPhrase(Text),
                                     booked |-> isBookingConfirmed(Text)]
    /\ UNCHANGED << pieces, callVars >>

PolicyNext == (\E piece \in Pieces : AppendPiece(piece)) \/ Classify

PolicySpec == Init /\ [][PolicyNext]_vars

(***************************************************************************)
(* Properties.                                                             *)
(***************************************************************************)
\* the requests in flight whose array is the one the Map holds for their call
Live(p) == Has(p.callSid) /\ conversations[p.callSid].ref = p.ref

\* a system turn, then user, assistant, user, assistant, ...
Alternating(h) ==
    /\ h # << >>
    /\ h[1].role = "system"
    /\ \A i \in 2..Len(h) : h[i].role = IF i % 2 = 0 THEN "user" ELSE "assistant"

\* C1: once the close of a session has been handled, the Map holds no entry
\* for its call, in any later state (a closed session stays closed), whatever
\* completes afterwards.
C1_NoHistoryAfterClose == \A c \in CallSids : session[c] = "closed" => ~Has(c)

\* a session was closed while a request of its call was in flight
C1_ClosedWhilePending == \E p \in pending \cap orphaned : session[p.callSid] = "closed"

\* C2: every stored history is one system turn followed by turns that strictly
\* alternate user, assistant, user, assistant, ...
C2_StrictAlternation == \A c \in CallSids : Has(c) => Alternating(History(c))

\* C3: at no time are two requests of one call in flight, and no user turn is
\* appended to the history of a call while a request of it is in flight (the
\* stored history is still what the request took with it).
C3_OneRequestInFlight ==
    /\ \A c \in CallSids : Cardinality(PendingOf(c)) <= 1
    /\ \A p \in pending : Live(p) => History(p.callSid) = p.messages

\* C4: when the request fails, the history is what it was before the recognition
\* event that made the request: the user turn of the failed attempt is not in it
\* (a history that did not exist before the event may be absent or hold the
\* system turn alone).
C4_FailureLeavesHistory ==
    [][\A p \in pending :
        (ModelFail(p) /\ Live(p) /\ History(p.callSid) = p.messages)
            => \/ History(p.callSid)' = SubSeq(p.messages, 1, Len(p.messages) - 1)
               \/ Len(p.messages) = 2 /\ History(p.callSid)' = << >>]_vars

\* C5: the reply (or failure) of a request that was in flight when a terminal
\* status or the close of its call was handled is discarded: nothing is pushed
\* to the speech channel, no hangup is scheduled, no history is touched.
C5_LateReplyDiscarded ==
    [][\A p \in pending \cap orphaned :
        p \notin pending'
            => /\ cmds'[p.callSid] = cmds[p.callSid]
               /\ hangupTimers'[p.callSid] = hangupTimers[p.callSid]
               /\ conversations' = conversations]_vars

\* the recognition handler runs on evt for call c, whichever branch it takes
Handles(c, evt) == SpeechEmpty(c, evt) \/ SpeechEndPhrase(c, evt) \/ SpeechTurn(c, evt)

\* the step is one of call c
StepOf(c) ==
    \/ SessionNew(c) \/ GreetingTimer(c) \/ HangupTimer(c) \/ Close(c) \/ LogOnly(c)
    \/ \E evt \in Events(c) : Handles(c, evt)
    \/ \E status \in CallStatuses : CallStatus(c, status)
    \/ \E p \in PendingOf(c) : ModelFail(p) \/ \E content \in ModelReplies : ModelReply(p, content)

\* the user turns of h are words of the caller of c, its first turn the persona
OwnTurns(h, c) ==
    \A i \in DOMAIN h :
        /\ h[i].role = "user" => h[i].content \in Utterances(c)
        /\ h[i].role = "system" => h[i].content = SYSTEM_PROMPT
        /\ h[i].role = "assistant" => h[i].content \in ModelReplies

\* the entry of d in the Map and the requests of d in flight
Kept(d) == << Has(d), History(d), PendingOf(d) >>

\* C6: two calls never see or change each other's history: a stored history and
\* a request hold the system turn and turns made of the call's own transcripts
\* and replies, and a step of one call (a deletion too) leaves the entry and the
\* requests of every other call as they are: what changes for d changes in no
\* step of another call.
C6_Isolation ==
    /\ [](\A c \in CallSids :
            /\ OwnTurns(History(c), c)
            /\ \A p \in PendingOf(c) : OwnTurns(p.messages, c))
    /\ [][\A d \in CallSids : Kept(d)' # Kept(d) =>
            \A c \in CallSids \ {d} : ~StepOf(c)]_vars

\* both calls have asked the model; the history of one is gone, the other's
\* is there, with a reply in it
C6_OneDeletedOtherKept ==
    \E c, d \in CallSids :
        /\ c # d /\ asked[c] > 0 /\ ~Has(c)
        /\ Has(d) /\ Len(History(d)) >= 3

\* how many commands of log, up to position n, satisfy Test
CountTo(log, n, Test(_)) == Cardinality({i \in 1..n : Test(log[i])})

IsHangup(cmd) == cmd.op = "hangup"

\* an utterance that ends the call: the closing one, or a reply with the farewell
IsEnding(cmd) ==
    /\ cmd.op = "sendTtsTokens"
    /\ \/ cmd.text = CLOSING
       \/ \E r \in ModelReplies : cmd.text = r \o FAREWELL

Hangups(c) == CountTo(cmds[c], Len(cmds[c]), IsHangup)

\* C7: a recognition event whose transcript matches an end phrase makes no
\* request to the model, deletes the history of the call, pushes and flushes the
\* closing utterance and arms a hangup; every hangup in the log has its ending
\* utterance before it, and an armed hangup is issued in the end.
C7_EndPhrase ==
    /\ [][\A c \in CallSids : \A evt \in Events(c) :
            (Handles(c, evt) /\ isEndPhrase(ExtractTranscript(evt)))
                => /\ pending' = pending /\ asked' = asked
                   /\ ~Has(c)'
                   /\ cmds'[c] = cmds[c] \o << Cmd("reply", << >>),
                                              Cmd("sendTtsTokens", CLOSING),
                                              Cmd("flushTtsTokens", << >>) >>
                   /\ hangupTimers'[c] = hangupTimers[c] + 1]_vars
    /\ [](\A c \in CallSids : \A j \in DOMAIN cmds[c] :
            IsHangup(cmds[c][j])
                => CountTo(cmds[c], j, IsEnding) >= CountTo(cmds[c], j, IsHangup))
    /\ \A c \in CallSids : \A n \in 0..MaxEvents :
            (hangupTimers[c] > 0 /\ Hangups(c) = n) ~> (Hangups(c) > n)

\* the caller declined before anything was asked of the model: the closing
\* utterance was pushed and flushed, and the hangup issued
C7_DeclinedAndHungUp ==
    \E c \in CallSids :
        /\ asked[c] = 0 /\ ~Has(c)
        /\ \E i \in DOMAIN cmds[c] :
            /\ i + 1 \in DOMAIN cmds[c]
            /\ cmds[c][i] = Cmd("sendTtsTokens", CLOSING)
            /\ cmds[c][i + 1] = Cmd("flushTtsTokens", << >>)
            /\ \E j \in DOMAIN cmds[c] : j > i + 1 /\ IsHangup(cmds[c][j])

\* the transcript of evt is neither empty nor an end phrase
IsTurn(evt) == trim(ExtractTranscript(evt)) # << >> /\ ~isEndPhrase(ExtractTranscript(evt))

\* C8: every request carries the whole history of the call with the new user
\* turn last, so the first one carries the system turn and that user turn; when
\* the first request, nothing else having touched the history, gets a reply that
\* confirms nothing, the reply is pushed and flushed, no hangup is armed, the
\* history is system, user, assistant and the session stays open.
C8_FirstTurn ==
    [][/\ \A c \in CallSids : \A evt \in Events(c) :
            (Handles(c, evt) /\ IsTurn(evt)) =>
                \E p \in pending' :
                    /\ pending' \ pending = {p}
                    /\ p.callSid = c
                    /\ p.messages = History(c)'
                    /\ Has(c) => p.messages =
                            Append(History(c), Turn("user", ExtractTranscript(evt)))
                    /\ asked[c] = 0 => p.messages =
                            << Turn("system", SYSTEM_PROMPT),
                               Turn("user", ExtractTranscript(evt)) >>
       /\ \A p \in pending : \A content \in ModelReplies :
            ( /\ ModelReply(p, content) /\ ~isBookingConfirmed(content)
              /\ p.seq = 1 /\ Live(p) /\ History(p.callSid) = p.messages
              /\ session[p.callSid] = "open" ) =>
                /\ cmds'[p.callSid] = cmds[p.callSid] \o
                        << Cmd("sendTtsTokens", content), Cmd("flushTtsTokens", << >>) >>
                /\ hangupTimers' = hangupTimers
                /\ History(p.callSid)' = Append(p.messages, Turn("assistant", content))
                /\ Len(History(p.callSid)') = 3
                /\ session'[p.callSid] = "open"
                /\ PendingOf(p.callSid)' = {}]_vars

\* the first exchange is over: three turns are stored, the reply is the last
\* thing said, no hangup is armed or issued, the session is open
C8_ThreeTurns ==
    \E c \in CallSids :
        /\ session[c] = "open" /\ asked[c] = 1 /\ PendingOf(c) = {}
        /\ Len(History(c)) = 3
        /\ hangupTimers[c] = 0 /\ Hangups(c) = 0
        /\ Len(cmds[c]) >= 2
        /\ cmds[c][Len(cmds[c]) - 1] = Cmd("sendTtsTokens", History(c)[3].content)

\* C9: when the request fails the handler ends normally: the fallback apology
\* is the one utterance pushed and flushed, no hangup is armed, the request is
\* not made again, and the session is as open as it was.
C9_Fallback ==
    [][\A p \in pending : ModelFail(p) =>
            /\ cmds'[p.callSid] = cmds[p.callSid] \o
                    << Cmd("sendTtsTokens", FALLBACK), Cmd("flushTtsTokens", << >>) >>
            /\ hangupTimers' = hangupTimers
            /\ pending' = pending \ {p}
            /\ asked' = asked
            /\ session' = session]_vars

\* after the apology the caller spoke again and the model is being asked
C9_SpokeAgainAfterFallback ==
    \E c \in CallSids :
        /\ session[c] = "open" /\ hangupTimers[c] = 0 /\ Hangups(c) = 0
        /\ \E p \in PendingOf(c) : p.seq = 2
        /\ \E i, j \in DOMAIN cmds[c] :
            /\ i < j
            /\ cmds[c][i] = Cmd("sendTtsTokens", FALLBACK)
            /\ cmds[c][j] = Cmd("reply", << >>)

IsPrefix(h, g) == Len(h) <= Len(g) /\ SubSeq(g, 1, Len(h)) = h

\* C10: a stored history has exactly one system turn, the first, equal to the
\* persona template; while the entry exists turns are only appended.
C10_SystemFirstAppendOnly ==
    /\ [](\A c \in CallSids : Has(c) =>
            /\ History(c)[1] = Turn("system", SYSTEM_PROMPT)
            /\ \A i \in 2..Len(History(c)) : History(c)[i].role # "system")
    /\ [][\A c \in CallSids : (Has(c) /\ Has(c)') => IsPrefix(History(c), History(c)')]_vars

\* a history that grew by more than one exchange
C10_GrownHistory ==
    \E c \in CallSids : Has(c) /\ Len(History(c)) >= 4

\* C11: a history made anew after a deletion holds the system turn and the
\* turns made since: the request that makes it carries the system turn and its
\* own user turn, every request carries the stored history as it then is, and
\* a request that left on an array the Map no longer holds adds nothing to the
\* array the Map holds when it completes.
C11_FreshAfterRecreation ==
    [][/\ \A c \in CallSids : \A evt \in Events(c) :
            (Handles(c, evt) /\ IsTurn(evt)) =>
                /\ \A p \in pending' \ pending : p.messages = History(c)'
                /\ ~Has(c) => History(c)' = << Turn("system", SYSTEM_PROMPT),
                                               Turn("user", ExtractTranscript(evt)) >>
       /\ \A p \in pending :
            (~Live(p) /\ p \notin pending' /\ Has(p.callSid)')
                => History(p.callSid)' = History(p.callSid)]_vars

\* the second array of the call holds its two first turns and its request is in
\* flight, after the reply to the request that left on the first array was
\* spoken: that reply is the last thing in the log, behind both acknowledgements
C11_StaleReplyAfterRecreation ==
    \E c \in CallSids :
        /\ Has(c) /\ conversations[c].ref = 1 /\ Len(History(c)) = 2
        /\ received[c] = 2
        /\ \E p \in PendingOf(c) : PendingOf(c) = {p} /\ p.seq = 2 /\ p.ref = 1
        /\ Len(cmds[c]) >= 2
        /\ cmds[c][Len(cmds[c]) - 1] = Cmd("sendTtsTokens", R_plain)

\* sub occurs in s: s is some text, then sub, then some text
Occurs(sub, s) ==
    \E i \in 0..Len(s) :
        /\ i + Len(sub) <= Len(s)
        /\ SubSeq(s, 1, i) \o sub \o SubSeq(s, i + Len(sub) + 1, Len(s)) = s

\* nothing in s but white space (nothing at all included)
Blank(s) == \A i \in DOMAIN s : IsWhiteSpace(s[i])

\* C12: isEndPhrase returns true exactly when one of the end phrases occurs in
\* the text put in lower case, isBookingConfirmed exactly when one of the
\* confirmation markers does; both return a boolean on every text, and false
\* on a text that is empty or white space only.
C12_Classifiers ==
    verdict.decided =>
        /\ verdict.end \in BOOLEAN /\ verdict.booked \in BOOLEAN
        /\ verdict.end <=>
                \E i \in DOMAIN END_PHRASES : Occurs(END_PHRASES[i], toLowerCase(Text))
        /\ verdict.booked <=>
                \E i \in DOMAIN CONFIRM_MARKERS : Occurs(CONFIRM_MARKERS[i], toLowerCase(Text))
        /\ Blank(Text) => ~verdict.end /\ ~verdict.booked

\* a text with capital letters was found to hold an end phrase and no
\* confirmation marker
C12_CapitalsMatched ==
    /\ verdict.decided /\ verdict.end /\ ~verdict.booked
    /\ Text # toLowerCase(Text)
    /\ ~(\E i \in DOMAIN END_PHRASES : Occurs(END_PHRASES[i], Text))

\* an ending utterance was pushed for c: an end phrase was recognised or a
\* reply confirmed a booking
Ending(c) == \E i \in DOMAIN cmds[c] : IsEnding(cmds[c][i])

\* C13: once the call is ending, a recognition event handled while the hangup
\* is still to come makes no request to the model and leaves the Map as it is:
\* no turn is appended, no history made anew.
C13_EndingOnlyCloses ==
    [][\A c \in CallSids : \A evt \in Events(c) :
        (Ending(c) /\ hangupTimers[c] > 0 /\ Handles(c, evt))
            => /\ pending' = pending
               /\ conversations' = conversations]_vars

\* a reply with the farewell was pushed for c
Farewelled(c) ==
    \E i \in DOMAIN cmds[c] : \E r \in ModelReplies :
        cmds[c][i] = Cmd("sendTtsTokens", r \o FAREWELL)

\* a reply that confirms a booking is pushed with the farewell and flushed, the
\* history of the call is deleted and a hangup armed
ConfirmedReplyEnds ==
    \A p \in pending : \A content \in ModelReplies :
        (ModelReply(p, content) /\ isBookingConfirmed(content)) =>
            /\ cmds'[p.callSid] = cmds[p.callSid] \o
                    << Cmd("sendTtsTokens", content \o FAREWELL),
                       Cmd("flushTtsTokens", << >>) >>
            /\ ~Has(p.callSid)'
            /\ hangupTimers'[p.callSid] = hangupTimers[p.callSid] + 1

\* after the farewell the call listens no more: a recognition event is
\* acknowledged and nothing else is done with it
NoListeningAfterFarewell ==
    \A c \in CallSids : \A evt \in Events(c) :
        (Farewelled(c) /\ Handles(c, evt)) =>
            /\ pending' = pending
            /\ conversations' = conversations
            /\ cmds'[c] = Append(cmds[c], Cmd("reply", << >>))

\* C14: a reply classified as a confirmed booking is delivered with the
\* farewell, the history of the call is deleted, a hangup is armed and comes
\* after the utterance in the log, and the call does not listen again.
C14_ConfirmedBooking ==
    /\ [][ConfirmedReplyEnds]_vars
    /\ [](\A c \in CallSids : \A j \in DOMAIN cmds[c] :
            IsHangup(cmds[c][j]) => \E i \in 1..(j - 1) : IsEnding(cmds[c][i]))
    /\ [][NoListeningAfterFarewell]_vars

\* C15: once the close of a session has been handled, no push, flush or hangup
\* is issued on it, by a timer armed before the close or by anything else.
C15_NoCommandAfterClose ==
    [][\A c \in CallSids : session[c] = "closed" =>
        \A i \in (Len(cmds[c]) + 1)..Len(cmds'[c]) :
            cmds'[c][i].op \notin {"sendTtsTokens", "flushTtsTokens", "hangup"}]_vars

IsPush(cmd) == cmd.op = "sendTtsTokens"

\* C16: in the log of every call the greeting is the first text pushed to the
\* speech channel and is pushed once: a push is the greeting exactly when no
\* push comes before it.
C16_GreetingFirstOnce ==
    \A c \in CallSids : \A i \in DOMAIN cmds[c] :
        IsPush(cmds[c][i]) =>
            (cmds[c][i].text = greeting <=> CountTo(cmds[c], i - 1, IsPush) = 0)

\* C17: a recognition event whose transcript is missing, empty or white space
\* only is acknowledged and changes nothing else: no request to the model, no
\* utterance, no hangup armed, the Map and the session as they were.
C17_EmptyTranscriptIgnored ==
    [][\A c \in CallSids : \A evt \in Events(c) :
        (Handles(c, evt) /\ Blank(ExtractTranscript(evt))) =>
            /\ cmds'[c] = Append(cmds[c], Cmd("reply", << >>))
            /\ pending' = pending /\ asked' = asked
            /\ conversations' = conversations /\ allocated' = allocated
            /\ hangupTimers' = hangupTimers /\ greetTimer' = greetTimer
            /\ session' = session]_vars

\* after a first exchange an event without words was handled: the three turns
\* are still stored, nothing is in flight, no hangup is armed or issued, the
\* session is open and the acknowledgement is the last command
C17_SilenceAfterExchange ==
    \E c \in CallSids :
        /\ session[c] = "open" /\ received[c] = 2 /\ asked[c] = 1
        /\ Len(History(c)) = 3 /\ PendingOf(c) = {}
        /\ hangupTimers[c] = 0 /\ Hangups(c) = 0
        /\ cmds[c] # << >> /\ cmds[c][Len(cmds[c])] = Cmd("reply", << >>)

\* a text other than the greeting is pushed
IsAnswer(cmd) == IsPush(cmd) /\ cmd.text # greeting

\* the texts other than the greeting pushed for c so far
Answers(c) == CountTo(cmds[c], Len(cmds[c]), IsAnswer)

C19_AtMostOneHangup == \A c \in CallSids : Hangups(c) <= 1

IsAck(cmd) == cmd.op = "reply"

\* the acknowledgements sent on the session of c
Acks(c) == CountTo(cmds[c], Len(cmds[c]), IsAck)

\* C20: every recognition event is acknowledged once: the step that handles it
\* sends one acknowledgement, and sends it before every other command it sends
\* (what the event brings about later, reply, fallback or hangup, comes later
\* still); no other step sends one; the acknowledgements are as many as the
\* events handled.
C20_AcknowledgedOnceFirst ==
    /\ [][\A c \in CallSids :
            IF \E evt \in Events(c) : Handles(c, evt)
            THEN /\ IsPrefix(Append(cmds[c], Cmd("reply", << >>)), cmds'[c])
                 /\ Acks(c)' = Acks(c) + 1
            ELSE Acks(c)' = Acks(c)]_vars
    /\ [](\A c \in CallSids : Acks(c) = received[c])

\* two events were handled, one a request to the model, one an end phrase: two
\* acknowledgements were sent, and the closing utterance follows its own
C20_AckThenClosing ==
    \E c \in CallSids :
        /\ received[c] = 2 /\ asked[c] = 1 /\ Acks(c) = 2
        /\ \E i \in DOMAIN cmds[c] :
            /\ i + 1 \in DOMAIN cmds[c]
            /\ cmds[c][i] = Cmd("reply", << >>)
            /\ cmds[c][i + 1] = Cmd("sendTtsTokens", CLOSING)

=============================================================================
